---- MODULE Spec2Model ----
(***************************************************************************)
(* Query execution and pagination engine of api_handler/database.py:       *)
(* get_data, get_latest_available, process_head, process_get and the       *)
(* lru_cache'd get_count, run against a document store whose responses are *)
(* chosen by the environment.                                              *)
(***************************************************************************)
EXTENDS Integers, Sequences, FiniteSets, TLC

(***************************************************************************)
(* Bounds of the model.                                                    *)
(***************************************************************************)
MaxRequests == 2
MaxPageNumber == 3
MaxPages == 3
MaxCalls == 3

(***************************************************************************)
(* Program constants.                                                      *)
(***************************************************************************)
maxsize == 2048
MAX_ITEMS_PER_RESPONSE == 10
DATE_PARAM_NAME == "date"

None == "None"

(***************************************************************************)
(* blake2b(s.encode(), digest_size = n).hexdigest(), tabulated for the     *)
(* strings the model hashes.  The digest of any other string is a          *)
(* distinct token.                                                         *)
(***************************************************************************)
Blake2bHex(s, n) ==
    IF s = "date" /\ n = 6 THEN "cc6e0a1947e6"
    ELSE "blake2b" \o ToString(n) \o "(" \o s \o ")"

\* The parameter name get_data generates for the injected equality clause.
GeneratedName == "@" \o DATE_PARAM_NAME \o Blake2bHex(DATE_PARAM_NAME, 6)

(***************************************************************************)
(* Input domains.                                                          *)
(***************************************************************************)
Methods == {"GET", "HEAD"}
Formatters == {"json", "csv"}
\* tokens.page_number: <<>> is None, <<n>> the page number n
PageTokens == {<<>>} \cup {<<n>> : n \in -1..MaxPageNumber}
\* tokens.only_latest_by: None or a field name
LatestBy == {None, "newCases"}
Dates == {"2020-08-01"}
LatestDates == {"2020-07-31"}

Arg(n, v) == [name |-> n, value |-> v]

\* query_data.arguments as the parser binds them; names are unique within one
\* sequence.  The last one binds the name that get_data generates itself.
CallerArguments ==
    { <<Arg("@a", "x"), Arg("@b", "y")>>,
      <<Arg("@b", "y"), Arg("@a", "x")>>,
      <<Arg(GeneratedName, "2020-07-31")>> }

BaseFilters == "c.a = @a"
Ordering == "c.date DESC"
Structure == "{'date': c.date}"
\* request.url: the parameters of the query string of the URL, in their
\* order ("http://host/v1/data?" \o p1 \o "&" \o p2 ...)
PageParam(page_token) == "page=" \o ToString(page_token[1])

RequestUrls(page_token) ==
    IF page_token = <<>> THEN { <<"filters=a">> }
    ELSE { <<"filters=a", PageParam(page_token)>>,
           <<PageParam(page_token), "filters=a">> }

Requests ==
    UNION { [method : Methods, formatter : Formatters, page_number : {pt},
             only_latest_by : LatestBy, arguments : CallerArguments,
             series_date : Dates, url : RequestUrls(pt)] : pt \in PageTokens }

(***************************************************************************)
(* Store responses.  A response either yields rows or raises while it is   *)
(* consumed.                                                               *)
(***************************************************************************)
StoreErrors == {"KeyError", "IndexError", "ValueError"}

Rows(rs) == [err |-> None, rows |-> rs]
Raises(e) == [err |-> e, rows |-> <<>>]

\* rows of the count query
CountResponses ==
    { Rows(<<>>), Rows(<<0>>), Rows(<<3, 25>>) }
        \cup { Raises(e) : e \in StoreErrors }

\* rows of the existence-check query
ExistsResponses ==
    { Rows(<<>>), Rows(<<1>>), Rows(<<1, 2>>) }
        \cup { Raises(e) : e \in StoreErrors }

\* first row of the latest-date query: <<>> no row, <<r>> a row r, which is
\* a mapping from field names to values
LatestResponses ==
    { Rows(<<>>) } \cup { Rows(<<[date |-> d]>>) : d \in LatestDates }
        \cup { Rows(<<[other |-> "x"]>>) }
        \cup { Raises(e) : e \in StoreErrors }

\* pages of the data query: the cursor yields its pages in order and then
\* raises `end' (StopIteration when it is exhausted)
PagePool == { <<>>, <<1, 2>> }

RECURSIVE SeqsUpTo(_, _)
SeqsUpTo(S, n) ==
    IF n = 0 THEN { <<>> }
    ELSE LET shorter == SeqsUpTo(S, n - 1)
         IN  shorter \cup { Append(s, x) : s \in shorter, x \in S }

Cursors ==
    [pages : SeqsUpTo(PagePool, MaxPages),
     end : {"StopIteration"} \cup StoreErrors]

(***************************************************************************)
(* Query templates (DBQueries.<kind>.substitute): text substitution of the *)
(* result-shape template, the filter clause and the ordering into the      *)
(* template of the given kind.                                             *)
(***************************************************************************)
DBQueries(kind, template, clause_script, ordering) ==
    kind \o " " \o template \o " WHERE " \o clause_script \o " " \o ordering

(***************************************************************************)
(* sorted(arguments, key=lambda v: v["name"]): a stable sort by name.      *)
(* Python orders the names of the model as listed in NameOrder.            *)
(***************************************************************************)
NameOrder == <<"@a", "@areaCode", "@b", GeneratedName, "@seriesDate">>

NameRank(n) == CHOOSE i \in 1..Len(NameOrder) : NameOrder[i] = n

\* s with x inserted after every item whose name is not greater than x's
InsertByName(s, x) ==
    LET before == { i \in 1..Len(s) : NameRank(s[i].name) <= NameRank(x.name) }
        k == Cardinality(before)
    IN  SubSeq(s, 1, k) \o <<x>> \o SubSeq(s, k + 1, Len(s))

RECURSIVE SortedByName(_)
SortedByName(args) ==
    IF args = <<>> THEN <<>>
    ELSE InsertByName(SortedByName(SubSeq(args, 1, Len(args) - 1)),
                      args[Len(args)])

(***************************************************************************)
(* {item["name"]: item["value"] for item in ...}: the items of the dict in *)
(* insertion order; a repeated name keeps its first position and takes the *)
(* last value.                                                             *)
(***************************************************************************)
RECURSIVE DictItems(_)
DictItems(items) ==
    IF items = <<>> THEN <<>>
    ELSE LET d == DictItems(SubSeq(items, 1, Len(items) - 1))
             x == items[Len(items)]
             at == { i \in 1..Len(d) : d[i].name = x.name }
         IN  IF at = {} THEN Append(d, x)
             ELSE [i \in 1..Len(d) |-> IF i \in at THEN x ELSE d[i]]

\* variant: the dict is built from the arguments in the order given
ArgumentsDictUnsorted(args) == DictItems(args)

\* process_get: the keyword arguments get_count is called with
ArgumentsDict(args) == DictItems(SortedByName(args))

(***************************************************************************)
(* get_count and its lru_cache(maxsize=2048) wrapper.  The cache is the    *)
(* sequence of its entries, least recently used first.                     *)
(***************************************************************************)
\* functools._make_key: positional arguments, then the keyword items in
\* the order they were passed
MakeKey(query, date, kwargs) ==
    [query |-> query, date |-> date, kwargs |-> kwargs]

Entry(k, v) == [key |-> k, value |-> v]

Outcome(st, v) == [status |-> st, value |-> v]

\* body of get_count on the response of the count query
GetCountBody(resp) ==
    IF resp.err = None
    THEN IF Len(resp.rows) = 0
         THEN Outcome("NotAvailable", 0)           \* pop from empty list
         ELSE Outcome("returned", resp.rows[Len(resp.rows)])
    ELSE IF resp.err \in {"IndexError", "ValueError"}
         THEN Outcome("NotAvailable", 0)
         ELSE Outcome(resp.err, 0)

CachedAt(c, k) == { i \in 1..Len(c) : c[i].key = k }

\* variant: a hit leaves the order of the entries alone
LruHitNoRefresh(c, i) == c

\* a hit: the entry becomes the most recently used one
LruHit(c, i) ==
    SubSeq(c, 1, i - 1) \o SubSeq(c, i + 1, Len(c)) \o <<c[i]>>

\* a successful miss: the result is stored, evicting the least recently
\* used entry when the cache is full
LruStore(c, k, v) ==
    IF Len(c) >= maxsize
    THEN SubSeq(c, 2, Len(c)) \o <<Entry(k, v)>>
    ELSE Append(c, Entry(k, v))

\* variant: the outcome of the body is stored whether or not it is a count
LruGetCountMemoFailure(c, k, resp) ==
    LET at == CachedAt(c, k)
    IN  IF at # {}
        THEN LET i == CHOOSE j \in at : TRUE
             IN  [cache |-> LruHit(c, i),
                  outcome |-> Outcome("returned", c[i].value),
                  executed |-> FALSE]
        ELSE LET out == GetCountBody(resp)
             IN  [cache |-> LruStore(c, k, out.value),
                  outcome |-> out,
                  executed |-> TRUE]

\* get_count(query, date, **kwargs) through the cache: the new cache, the
\* outcome, and whether the store was queried
LruGetCount(c, k, resp) ==
    LET at == CachedAt(c, k)
    IN  IF at # {}
        THEN LET i == CHOOSE j \in at : TRUE
             IN  [cache |-> LruHit(c, i),
                  outcome |-> Outcome("returned", c[i].value),
                  executed |-> FALSE]
        ELSE LET out == GetCountBody(resp)
             IN  [cache |-> IF out.status = "returned"
                            THEN LruStore(c, k, out.value) ELSE c,
                  outcome |-> out,
                  executed |-> TRUE]

(***************************************************************************)
(* get_latest_available: next(latest)[DATE_PARAM_NAME] on the response of  *)
(* the latest-date query.                                                  *)
(***************************************************************************)
LatestOutcome(resp) ==
    IF resp.err = None
    THEN IF Len(resp.rows) = 0
         THEN Outcome("NotAvailable", None)            \* StopIteration
         ELSE IF DATE_PARAM_NAME \in DOMAIN resp.rows[1]
              THEN Outcome("returned", resp.rows[1][DATE_PARAM_NAME])
              ELSE Outcome("NotAvailable", None)       \* KeyError
    ELSE IF resp.err \in {"KeyError", "IndexError"}
         THEN Outcome("NotAvailable", None)
         ELSE Outcome(resp.err, None)

\* variant: no test of the number of rows
HeadOutcomeNoCheck(resp) ==
    IF resp.err = None THEN Outcome("returned", <<>>)
    ELSE IF resp.err = "KeyError"
         THEN Outcome("NotAvailable", <<>>)
         ELSE Outcome(resp.err, <<>>)

(***************************************************************************)
(* process_head: list(items) on the response of the existence-check query. *)
(***************************************************************************)
HeadOutcome(resp) ==
    IF resp.err = None
    THEN IF Len(resp.rows) = 0
         THEN Outcome("NotAvailable", <<>>)
         ELSE Outcome("returned", <<>>)                \* return list()
    ELSE IF resp.err = "KeyError"
         THEN Outcome("NotAvailable", <<>>)
         ELSE Outcome(resp.err, <<>>)

(***************************************************************************)
(* process_get, page seek.  A seek state is the number of next() calls     *)
(* made on the cursor, whether `res' is bound, its value, and the          *)
(* exception raised (None while none is).                                  *)
(***************************************************************************)
SeekState(n, b, r, e) == [advanced |-> n, bound |-> b, res |-> r, raised |-> e]

\* res = next(paginated_items)
NextPage(cur, st) ==
    IF st.advanced < Len(cur.pages)
    THEN SeekState(st.advanced + 1, TRUE, cur.pages[st.advanced + 1], None)
    ELSE SeekState(st.advanced + 1, st.bound, st.res, cur.end)

\* variant: while page <= page_number
RECURSIVE SeekLoopOffByOne(_, _, _, _)
SeekLoopOffByOne(cur, page, page_number, st) ==
    IF page <= page_number
    THEN LET nx == NextPage(cur, st)
         IN  IF nx.raised # None THEN nx
             ELSE SeekLoopOffByOne(cur, page + 1, page_number, nx)
    ELSE st

\* while page < page_number: res = next(paginated_items); page += 1
RECURSIVE SeekLoop(_, _, _, _)
SeekLoop(cur, page, page_number, st) ==
    IF page < page_number
    THEN LET nx == NextPage(cur, st)
         IN  IF nx.raised # None THEN nx
             ELSE SeekLoop(cur, page + 1, page_number, nx)
    ELSE st

\* variant: StopIteration is not among the exceptions caught
FetchPageUncaughtStop(cur, page_token) ==
    LET st0 == SeekState(0, FALSE, <<>>, None)
        st == IF page_token # <<>>
              THEN SeekLoop(cur, 0, page_token[1], st0)
              ELSE NextPage(cur, st0)
        status ==
            IF st.raised \in {"KeyError", "IndexError"}
            THEN "NotAvailable"
            ELSE IF st.raised # None THEN st.raised
            ELSE IF ~st.bound THEN "UnboundLocalError"
            ELSE "returned"
    IN  [status |-> status,
         results |-> IF status = "returned" THEN st.res ELSE <<>>,
         advanced |-> st.advanced]

\* the try block of process_get: the rows of the page, or the error raised
FetchPage(cur, page_token) ==
    LET st0 == SeekState(0, FALSE, <<>>, None)
        st == IF page_token # <<>>
              THEN SeekLoop(cur, 0, page_token[1], st0)
              ELSE NextPage(cur, st0)
        status ==
            IF st.raised \in {"KeyError", "IndexError", "StopIteration"}
            THEN "NotAvailable"
            ELSE IF st.raised # None THEN st.raised
            ELSE IF ~st.bound THEN "UnboundLocalError"
            ELSE "returned"
    IN  [status |-> status,
         results |-> IF status = "returned" THEN st.res ELSE <<>>,
         advanced |-> st.advanced]

\* variant: the text hashed has the bound values in it
QueryHashWithValues(query, parameters) ==
    Blake2bHex(query \o ToString(parameters), 32)

\* query_hash: the continuation token by_page is seeded with, computed in
\* process_get from the data query and its parameters
QueryHash(query, parameters) == Blake2bHex(query, 32)

\* what n calls of next() consume of the cursor: the pages they return and
\* the exception raised once there is no page left
Yielded(cur, n) ==
    IF n <= Len(cur.pages)
    THEN [pages |-> SubSeq(cur.pages, 1, n), end |-> None]
    ELSE [pages |-> cur.pages, end |-> cur.end]

(***************************************************************************)
(* process_get, response assembly.                                         *)
(***************************************************************************)
\* math.ceil(a / b) for a >= 0, b > 0
Ceil(a, b) == (a \div b) + (IF a % b = 0 THEN 0 ELSE 1)

\* PAGINATION_PATTERN.sub("", request.url): the text of every page
\* parameter is removed, the separators around it stay
PaginationSub(url) ==
    [i \in 1..Len(url) |->
        IF url[i] \in { PageParam(pt) : pt \in PageTokens \ {<<>>} }
        THEN "" ELSE url[i]]

RECURSIVE Join(_)
Join(parts) ==
    IF parts = <<>> THEN ""
    ELSE IF Len(parts) = 1 THEN parts[1]
    ELSE parts[1] \o "&" \o Join(Tail(parts))

\* s.strip("&") of a text that starts with "/": the trailing separators go
RECURSIVE StripTrailing(_)
StripTrailing(parts) ==
    IF parts # <<>> /\ parts[Len(parts)] = ""
    THEN StripTrailing(SubSeq(parts, 1, Len(parts) - 1))
    ELSE parts

\* urlparse(prepped_url).query
UrlQuery(url) == Join(PaginationSub(url))

\* f"/v1/data?{parsed_url.query}".strip("&")
Url(url) == "/v1/data?" \o Join(StripTrailing(PaginationSub(url)))

PageLink(url, n) == Url(url) \o "&page=" \o ToString(n)

\* variant: 'next' is present while page_number <= total_pages
PaginationNextInclusive(url, page_number, count) ==
    LET total_pages == Ceil(count, MAX_ITEMS_PER_RESPONSE)
    IN  [current |-> PageLink(url, page_number),
         next |-> IF page_number <= total_pages
                  THEN PageLink(url, page_number + 1) ELSE None,
         previous |-> IF (page_number - 1) > 0
                      THEN PageLink(url, page_number - 1) ELSE None,
         first |-> PageLink(url, 1),
         last |-> PageLink(url, total_pages)]

Pagination(url, page_number, count) ==
    LET total_pages == Ceil(count, MAX_ITEMS_PER_RESPONSE)
    IN  [current |-> PageLink(url, page_number),
         next |-> IF page_number < total_pages
                  THEN PageLink(url, page_number + 1) ELSE None,
         previous |-> IF (page_number - 1) > 0
                      THEN PageLink(url, page_number - 1) ELSE None,
         first |-> PageLink(url, 1),
         last |-> PageLink(url, total_pages)]

JsonResponse(url, results, max_items_, page_token, count_) ==
    LET response == [length |-> Len(results),
                     maxPageLimit |-> max_items_,
                     data |-> results]
    IN  IF page_token # <<>>
        THEN [length |-> response.length,
              maxPageLimit |-> response.maxPageLimit,
              data |-> response.data,
              pagination |-> Pagination(url, page_token[1], count_)]
        ELSE response

\* df.to_csv(index=None): a header line and one line per row
CsvResponse(results) ==
    <<"date">> \o [i \in 1..Len(results) |-> ToString(results[i])]

\* variant: an empty page is rendered as CSV like any other
AssembleNoEmptyCheck(url, formatter, results, max_items_, page_token, count_) ==
    IF formatter # "csv"
    THEN Outcome("returned",
                 JsonResponse(url, results, max_items_, page_token,
                              count_))
    ELSE Outcome("returned", CsvResponse(results))

\* process_get after the page is fetched: the outcome of the request
Assemble(url, formatter, results, max_items_, page_token, count_) ==
    IF formatter # "csv"
    THEN Outcome("returned",
                 JsonResponse(url, results, max_items_, page_token,
                              count_))
    ELSE IF Len(results) = 0
         THEN Outcome("NotAvailable", <<>>)
         ELSE Outcome("returned", CsvResponse(results))

(***************************************************************************)
(* State.                                                                  *)
(***************************************************************************)
VARIABLES
    cache,      \* entries of the lru_cache of get_count, oldest first
    pc,         \* position of the request being served
    req,        \* the request: method, formatter and parsed tokens
    arguments,  \* get_data: arguments
    filters,    \* get_data: filters
    max_items,  \* get_data: max_items
    key,        \* cache key of the last call of get_count
    count,      \* process_get: count
    response,   \* what the store answered to the last row query
    cursor,     \* what the page cursor of the data query yielded: the
                \* pages fetched and the exception that ended it, if any
    advanced,   \* number of next() calls made on the cursor
    results,    \* process_get: results
    queries,    \* store queries executed for the request, in order
    result,     \* outcome of the request or call
    nreq,       \* number of requests or calls started
    seeded,     \* data queries prepared side by side, with their seed tokens
    tasks,      \* the coroutines of the requests served concurrently
    holder      \* the task that runs on the event loop, 0 when it is free

vars == <<cache, pc, req, arguments, filters, max_items, key, count, response,
          cursor, advanced, results, queries, result, nreq, seeded, tasks,
          holder>>

\* state of the side-by-side and concurrent runs
runs == <<seeded, tasks, holder>>

NoRequest ==
    [method |-> None, formatter |-> None, page_number |-> <<>>,
     only_latest_by |-> None, arguments |-> <<>>, series_date |-> None,
     url |-> <<>>]

NoKey == MakeKey(None, None, <<>>)

NoResponse == [err |-> "pending", rows |-> <<>>]

NoCursor == [pages |-> <<>>, end |-> None]

Pending == Outcome("pending", <<>>)

Tasks == 1..MaxRequests

NoTask ==
    [pc |-> "none", req |-> NoRequest, key |-> NoKey, count |-> 0,
     queries |-> <<>>, status |-> "pending"]

Query(kind, text, parameters) ==
    [kind |-> kind, query |-> text, parameters |-> parameters]

Locals ==
    /\ pc = "idle"
    /\ req = NoRequest
    /\ arguments = <<>>
    /\ filters = ""
    /\ max_items = 0
    /\ key = NoKey
    /\ count = 0
    /\ response = NoResponse
    /\ cursor = NoCursor
    /\ advanced = 0
    /\ results = <<>>
    /\ queries = <<>>
    /\ result = Pending
    /\ nreq = 0
    /\ seeded = <<>>
    /\ tasks = [p \in Tasks |-> NoTask]
    /\ holder = 0

\* the module is imported: the cache of get_count is empty
Init == cache = <<>> /\ Locals

(***************************************************************************)
(* get_data, control flow.                                                 *)
(***************************************************************************)
\* variant: the main query is started without the latest-date lookup
AfterSetupNoLookup(latest_by) == "dispatch"

\* line 341: where get_data goes once its locals are set
AfterSetup(latest_by) ==
    IF latest_by # None THEN "latest" ELSE "dispatch"

\* variant: every method is handled by process_get
HandlerAlwaysGet(method) == "process_get"

\* lines 360-366: the function the request is handed to
Handler(method) ==
    IF method = "HEAD" THEN "process_head"
    ELSE IF method = "GET" THEN "process_get"
    ELSE None

(***************************************************************************)
(* get_data up to its first store query: lines 323-339.                    *)
(***************************************************************************)
GetData(r) ==
    /\ pc = "idle"
    /\ nreq < MaxRequests
    /\ nreq' = nreq + 1
    /\ req' = r
    /\ arguments' = Append(r.arguments, Arg("@seriesDate", r.series_date))
    /\ filters' = BaseFilters
    /\ max_items' = MAX_ITEMS_PER_RESPONSE
    /\ pc' = AfterSetup(r.only_latest_by)
    /\ key' = NoKey
    /\ count' = 0
    /\ response' = NoResponse
    /\ cursor' = NoCursor
    /\ advanced' = 0
    /\ results' = <<>>
    /\ queries' = <<>>
    /\ result' = Pending
    /\ UNCHANGED cache
    /\ UNCHANGED runs

(***************************************************************************)
(* get_data, latest_by is not None: lines 341-358, with                    *)
(* get_latest_available.                                                   *)
(***************************************************************************)
GetLatestAvailable(resp) ==
    /\ pc = "latest"
    /\ LET query == DBQueries("latest", req.only_latest_by, filters, Ordering)
           out == LatestOutcome(resp)
           name == "@" \o DATE_PARAM_NAME \o Blake2bHex(DATE_PARAM_NAME, 6)
       IN  /\ queries' = Append(queries, Query("latest", query, arguments))
           /\ response' = resp
           /\ IF out.status = "returned"
              THEN /\ max_items' = 1
                   /\ filters' = filters \o " AND c." \o DATE_PARAM_NAME
                                         \o " = " \o name
                   /\ arguments' = Append(arguments, Arg(name, out.value))
                   /\ pc' = "dispatch"
                   /\ UNCHANGED result
              ELSE /\ result' = Outcome(out.status, <<>>)
                   /\ pc' = "done"
                   /\ UNCHANGED <<max_items, filters, arguments>>
    /\ UNCHANGED <<cache, req, key, count, cursor, advanced, results, nreq>>
    /\ UNCHANGED runs

(***************************************************************************)
(* process_head.                                                           *)
(***************************************************************************)
ProcessHead(resp) ==
    /\ pc = "dispatch"
    /\ Handler(req.method) = "process_head"
    /\ LET query == DBQueries("exists", "", filters, Ordering)
       IN  queries' = Append(queries, Query("exists", query, arguments))
    /\ response' = resp
    /\ result' = HeadOutcome(resp)
    /\ pc' = "done"
    /\ UNCHANGED <<cache, req, arguments, filters, max_items, key, count,
                   cursor, advanced, results, nreq>>
    /\ UNCHANGED runs

(***************************************************************************)
(* process_get up to the count: lines 165-182.                             *)
(***************************************************************************)
ProcessGetCount(resp) ==
    /\ pc = "dispatch"
    /\ Handler(req.method) = "process_get"
    /\ LET count_query == DBQueries("count", Structure, filters, Ordering)
           arguments_dict == ArgumentsDict(arguments)
           k == MakeKey(count_query, req.series_date, arguments_dict)
           call == LruGetCount(cache, k, resp)
       IN  /\ key' = k
           /\ cache' = call.cache
           /\ IF call.executed
              THEN /\ queries' = Append(queries, Query("count", count_query,
                                                       arguments_dict))
                   /\ response' = resp
              ELSE UNCHANGED <<queries, response>>
           /\ IF call.outcome.status = "returned"
              THEN /\ count' = call.outcome.value
                   /\ pc' = "fetch"
                   /\ UNCHANGED result
              ELSE /\ result' = Outcome(call.outcome.status, <<>>)
                   /\ pc' = "done"
                   /\ UNCHANGED count
    /\ UNCHANGED <<req, arguments, filters, max_items, cursor, advanced,
                   results, nreq>>
    /\ UNCHANGED runs

(***************************************************************************)
(* process_get from the data query on: lines 184-257.                      *)
(***************************************************************************)
ProcessGetFetch(cur) ==
    /\ pc = "fetch"
    /\ LET query == DBQueries("data", Structure, filters, Ordering)
           fetch == FetchPage(cur, req.page_number)
       IN  /\ queries' = Append(queries,
                 [kind |-> "data", query |-> query, parameters |-> arguments,
                  continuation_token |-> QueryHash(query, arguments)])
           /\ cursor' = Yielded(cur, fetch.advanced)
           /\ advanced' = fetch.advanced
           /\ results' = fetch.results
           /\ result' = IF fetch.status = "returned"
                        THEN Assemble(req.url, req.formatter, fetch.results,
                                      max_items,
                                      req.page_number, count)
                        ELSE Outcome(fetch.status, <<>>)
    /\ pc' = "done"
    /\ UNCHANGED <<cache, req, arguments, filters, max_items, key, count,
                   response, nreq>>
    /\ UNCHANGED runs

(***************************************************************************)
(* get_data returns or raises (lines 361 and 364-366, or the exception     *)
(* leaving it): the outcome goes to the caller and the locals of the call  *)
(* are gone.                                                               *)
(***************************************************************************)
Return ==
    /\ pc = "done"
    /\ pc' = "idle"
    /\ req' = NoRequest
    /\ arguments' = <<>>
    /\ filters' = ""
    /\ max_items' = 0
    /\ key' = NoKey
    /\ count' = 0
    /\ response' = NoResponse
    /\ cursor' = NoCursor
    /\ advanced' = 0
    /\ results' = <<>>
    /\ queries' = <<>>
    /\ result' = Pending
    /\ UNCHANGED <<cache, nreq>>
    /\ UNCHANGED runs

\* the position of the call selects the step; its input is drawn after
Next ==
    \/ pc = "idle" /\ \E r \in Requests : GetData(r)
    \/ pc = "latest" /\ \E resp \in LatestResponses : GetLatestAvailable(resp)
    \/ pc = "dispatch" /\ \E resp \in ExistsResponses : ProcessHead(resp)
    \/ pc = "dispatch" /\ \E resp \in CountResponses : ProcessGetCount(resp)
    \/ pc = "fetch" /\ \E cur \in Cursors : ProcessGetFetch(cur)
    \/ Return

Spec == Init /\ [][Next]_vars

(***************************************************************************)
(* get_count called on its own, on a cache that earlier requests filled:   *)
(* entry i was stored by a successful count for area code i, in this       *)
(* order and with no lookup since.                                         *)
(***************************************************************************)
CountQuery == DBQueries("count", Structure, BaseFilters, Ordering)

AreaKey(i) ==
    MakeKey(CountQuery, "2020-08-01", <<Arg("@areaCode", ToString(i))>>)

WarmCache(n) == [i \in 1..n |-> Entry(AreaKey(i), 25)]

\* the codes get_count is called for: the two oldest cached ones and new ones
CallCodes == {1, 2, maxsize + 1, maxsize + 2}

\* what the store answers to the count query of such a call
CallResponses == { Rows(<<>>), Rows(<<7>>) }

InitCount ==
    /\ \E n \in {maxsize - 1, maxsize} : cache = WarmCache(n)
    /\ Locals

GetCount(query, date, kwargs, resp) ==
    /\ pc = "idle"
    /\ nreq < MaxCalls
    /\ nreq' = nreq + 1
    /\ LET k == MakeKey(query, date, kwargs)
           call == LruGetCount(cache, k, resp)
       IN  /\ key' = k
           /\ cache' = call.cache
           /\ queries' = IF call.executed
                         THEN <<Query("count", query, kwargs)>> ELSE <<>>
           /\ response' = IF call.executed THEN resp ELSE NoResponse
           /\ result' = call.outcome
           /\ count' = call.outcome.value
    /\ UNCHANGED <<pc, req, arguments, filters, max_items, cursor, advanced,
                   results>>
    /\ UNCHANGED runs

NextCount ==
    \E i \in CallCodes, resp \in CallResponses :
        GetCount(AreaKey(i).query, AreaKey(i).date, AreaKey(i).kwargs, resp)

SpecCount == InitCount /\ [][NextCount]_vars

(***************************************************************************)
(* Two GET requests side by side on one event loop, each taken through    *)
(* get_data and process_get up to the seeding of its page cursor (lines    *)
(* 323-358 and 165-206).  A request leaves the loop to the other one at    *)
(* the await of the ordering script in get_latest_available (line 268)     *)
(* and in process_get (line 170).  `queries' is the store's log of both.   *)
(***************************************************************************)
SeedDates == Dates \cup {"2020-08-02"}

SeedLatestDates == LatestDates \cup {"2020-07-30"}

SeedPages == { <<>>, <<2>> }

SeedRequests ==
    UNION { [method : {"GET"}, formatter : Formatters, page_number : {pt},
             only_latest_by : LatestBy,
             arguments : { <<Arg("@a", "x"), Arg("@b", "y")>> },
             series_date : SeedDates, url : RequestUrls(pt)]
            : pt \in SeedPages }

SeedLatestResponses ==
    { Rows(<<>>) } \cup { Rows(<<[date |-> d]>>) : d \in SeedLatestDates }

InitSeed == cache = <<>> /\ Locals

SeedRun(r, st, filters_, query, parameters, token) ==
    [request |-> r, status |-> st, filters |-> filters_, query |-> query,
     parameters |-> parameters, continuation_token |-> token]

\* a store query of run i in the store's log
Sent(i, q) == [run |-> i, kind |-> q.kind, query |-> q.query,
               parameters |-> q.parameters]

SeedFrame ==
    UNCHANGED <<pc, req, arguments, filters, max_items, key, count, response,
                cursor, advanced, results, result, tasks, holder>>

\* get_data up to its first await of an ordering script: line 268 when the
\* request names an only-latest-by field, line 170 otherwise
SeedArrive(r) ==
    /\ Len(seeded) < 2
    /\ seeded' = Append(seeded,
          SeedRun(r, IF r.only_latest_by # None THEN "lookup" ELSE "ordering",
                  BaseFilters, None,
                  Append(r.arguments, Arg("@seriesDate", r.series_date)),
                  None))
    /\ nreq' = nreq + 1
    /\ UNCHANGED <<cache, queries>>
    /\ SeedFrame

\* get_latest_available from line 270 on and get_data lines 348-358, up to
\* the await of line 170
SeedLookup(i, latest) ==
    /\ i \in 1..Len(seeded)
    /\ seeded[i].status = "lookup"
    /\ LET run == seeded[i]
           r == run.request
           name == "@" \o DATE_PARAM_NAME \o Blake2bHex(DATE_PARAM_NAME, 6)
           lookup == LatestOutcome(latest)
           sent == Query("latest",
                         DBQueries("latest", r.only_latest_by, run.filters,
                                   Ordering), run.parameters)
       IN  /\ queries' = Append(queries, Sent(i, sent))
           /\ seeded' = [seeded EXCEPT ![i] =
                  IF lookup.status = "returned"
                  THEN SeedRun(r, "ordering",
                               run.filters \o " AND c." \o DATE_PARAM_NAME
                                           \o " = " \o name,
                               None,
                               Append(run.parameters,
                                      Arg(name, lookup.value)),
                               None)
                  ELSE [run EXCEPT !.status = lookup.status]]
    /\ UNCHANGED <<cache, nreq>>
    /\ SeedFrame

\* process_get from line 172 to the seeding of the cursor at line 206
SeedCursor(i, resp) ==
    /\ i \in 1..Len(seeded)
    /\ seeded[i].status = "ordering"
    /\ LET run == seeded[i]
           r == run.request
           query == DBQueries("data", Structure, run.filters, Ordering)
           count_query == DBQueries("count", Structure, run.filters, Ordering)
           arguments_dict == ArgumentsDict(run.parameters)
           call == LruGetCount(cache,
                       MakeKey(count_query, r.series_date, arguments_dict),
                       resp)
           counted == IF call.executed
                      THEN Append(queries,
                               Sent(i, Query("count", count_query,
                                             arguments_dict)))
                      ELSE queries
           token == QueryHash(query, run.parameters)
       IN  /\ cache' = call.cache
           /\ IF call.outcome.status = "returned"
              THEN /\ seeded' = [seeded EXCEPT ![i] =
                         SeedRun(r, "seeded", run.filters, query,
                                 run.parameters, token)]
                   /\ queries' = Append(counted,
                         [run |-> i, kind |-> "data", query |-> query,
                          parameters |-> run.parameters,
                          continuation_token |-> token])
              ELSE /\ seeded' = [seeded EXCEPT ![i] =
                         [run EXCEPT !.status = call.outcome.status]]
                   /\ queries' = counted
    /\ UNCHANGED nreq
    /\ SeedFrame

NextSeed ==
    \/ \E r \in SeedRequests : SeedArrive(r)
    \/ \E i \in 1..2, latest \in SeedLatestResponses : SeedLookup(i, latest)
    \/ \E i \in 1..2, resp \in CallResponses : SeedCursor(i, resp)

SpecSeed == InitSeed /\ [][NextSeed]_vars

(***************************************************************************)
(* log_response: the hook built for one query and the records it writes.   *)
(* `count' is bound to 0 when the hook is built (line 69); process         *)
(* declares it nonlocal and writes it into the record, and no statement    *)
(* assigns it.  The rendered query text of the record is left out.         *)
(***************************************************************************)
Process(count_, parameters, response_count) ==
    [parameters |-> parameters, response_count |-> response_count,
     request_round |-> count_]

\* the records of the hook, invoked once for every page the store returned
RECURSIVE HookRecords(_, _, _)
HookRecords(count_, parameters, pages) ==
    IF pages = <<>> THEN <<>>
    ELSE <<Process(count_, parameters, Len(Head(pages)))>>
             \o HookRecords(count_, parameters, Tail(pages))

\* the records written for the data query of the request
LogResponse == HookRecords(0, arguments, cursor.pages)

(***************************************************************************)
(* GET requests in flight together.  get_data and process_get are          *)
(* coroutines of one event loop: a request runs from one await to the      *)
(* next without interruption, and the only await of process_get before its *)
(* return is that of the ordering script (line 170).  get_count is a plain *)
(* function whose store call is consumed with list(...) (lines 108-115),   *)
(* and the page fetch is a plain next(...) (lines 206-214).  `holder' is   *)
(* the request the loop is running, 0 when the loop is idle.               *)
(***************************************************************************)
LoopPages == { <<>>, <<0>> }

LoopRequests ==
    UNION { [method : {"GET"}, formatter : Formatters, page_number : {pt},
             only_latest_by : {None},
             arguments : { <<Arg("@a", "x"), Arg("@b", "y")>> },
             series_date : SeedDates,
             url : { <<"filters=a">> \o [i \in 1..Len(pt) |-> PageParam(pt)] }]
            : pt \in LoopPages }

\* arguments_dict and the key of the count of request r (lines 177-182)
LoopKey(r) ==
    MakeKey(CountQuery, r.series_date,
            ArgumentsDict(Append(r.arguments,
                                 Arg("@seriesDate", r.series_date))))

LoopCursors ==
    [pages : { <<>>, << <<>> >>, << <<1, 2>> >> },
     end : {"StopIteration", "ValueError"}]

\* variant: the store call is awaited, so the loop is free while it is in
\* flight
StoreCallAwaited(p) == 0

\* a store call made by request p: the loop stays with p until it returns
StoreCall(p) == p

Runnable(p) == holder \in {0, p}

InitLoop == cache = <<>> /\ Locals

LoopFrame ==
    UNCHANGED <<pc, req, arguments, filters, max_items, key, count, response,
                cursor, advanced, results, queries, result, nreq, seeded>>

\* get_data up to the await of the ordering script in process_get
Arrive(p, r) ==
    /\ Runnable(p)
    /\ tasks[p].pc = "none"
    /\ tasks' = [tasks EXCEPT ![p] = [NoTask EXCEPT !.pc = "suspended",
                                                    !.req = r,
                                                    !.key = LoopKey(r)]]
    /\ holder' = 0
    /\ UNCHANGED cache
    /\ LoopFrame

\* process_get resumed: the call of get_count, up to the store call on a
\* miss, and on to the page fetch on a hit
CountCall(p) ==
    /\ Runnable(p)
    /\ tasks[p].pc = "suspended"
    /\ IF CachedAt(cache, tasks[p].key) = {}
       THEN /\ tasks' = [tasks EXCEPT ![p].pc = "count",
                                      ![p].queries = <<"count">>]
            /\ UNCHANGED cache
       ELSE LET call == LruGetCount(cache, tasks[p].key, NoResponse)
            IN  /\ tasks' = [tasks EXCEPT ![p].pc = "data",
                                          ![p].count = call.outcome.value,
                                          ![p].queries = <<"data">>]
                /\ cache' = call.cache
    /\ holder' = StoreCall(p)
    /\ LoopFrame

\* the count query returns: the rest of get_count, and on to the page fetch
CountReturn(p, resp) ==
    /\ Runnable(p)
    /\ tasks[p].pc = "count"
    /\ LET call == LruGetCount(cache, tasks[p].key, resp)
       IN  /\ cache' = call.cache
           /\ IF call.outcome.status = "returned"
              THEN /\ tasks' = [tasks EXCEPT ![p].pc = "data",
                                   ![p].count = call.outcome.value,
                                   ![p].queries = Append(@, "data")]
                   /\ holder' = StoreCall(p)
              ELSE /\ tasks' = [tasks EXCEPT ![p].pc = "done",
                                   ![p].status = call.outcome.status]
                   /\ holder' = 0
    /\ LoopFrame

\* the page fetch returns or raises, and process_get with it
DataReturn(p, cur) ==
    /\ Runnable(p)
    /\ tasks[p].pc = "data"
    /\ LET r == tasks[p].req
           fetch == FetchPage(cur, r.page_number)
           out == IF fetch.status = "returned"
                  THEN Assemble(r.url, r.formatter, fetch.results,
                                MAX_ITEMS_PER_RESPONSE, r.page_number,
                                tasks[p].count)
                  ELSE Outcome(fetch.status, <<>>)
       IN  tasks' = [tasks EXCEPT ![p].pc = "done",
                                  ![p].status = out.status]
    /\ holder' = 0
    /\ UNCHANGED cache
    /\ LoopFrame

NextLoop ==
    \/ \E p \in Tasks, r \in LoopRequests : Arrive(p, r)
    \/ \E p \in Tasks : CountCall(p)
    \/ \E p \in Tasks, resp \in CallResponses : CountReturn(p, resp)
    \/ \E p \in Tasks, cur \in LoopCursors : DataReturn(p, cur)

SpecLoop == InitLoop /\ [][NextLoop]_vars

(***************************************************************************)
(* Properties.                                                             *)
(***************************************************************************)
LastQueryIs(kind) ==
    queries # <<>> /\ queries[Len(queries)].kind = kind

\* process_get has run to its end
FetchDone == pc = "done" /\ LastQueryIs("data")

\* the page a request asks for: page 1 when it names none
RequestedPage ==
    IF req.page_number = <<>> THEN 1 ELSE req.page_number[1]

\* the cursor holds the requested page
PageHeld == RequestedPage >= 1 /\ Len(cursor.pages) >= RequestedPage

\* the link targets page k of the request's URL
TargetsPage(link, k) ==
    link = Url(req.url) \o "&page=" \o ToString(k)

\* s and t hold the same items, each as often
IsPermutation(s, t) ==
    /\ Len(s) = Len(t)
    /\ \A i \in 1..Len(s) :
          Cardinality({ j \in 1..Len(s) : s[j] = s[i] })
              = Cardinality({ j \in 1..Len(t) : t[j] = s[i] })

\* C1: when the cursor holds the requested page n >= 1, the rows fetched
\* (and returned in the envelope) are page n of the cursor and the cursor
\* was advanced exactly n times; with no page number, page 1 is fetched
\* with one advance.
C1_PageSeek ==
    (FetchDone /\ PageHeld) =>
        /\ results = cursor.pages[RequestedPage]
        /\ advanced = RequestedPage
        /\ req.formatter = "json" =>
              /\ result.status = "returned"
              /\ result.value.data = cursor.pages[RequestedPage]

C1_Witness ==
    /\ FetchDone
    /\ req.page_number = <<2>>
    /\ Len(cursor.pages) >= 2
    /\ cursor.pages[1] # cursor.pages[2]
    /\ req.formatter = "json"
    /\ result.status = "returned"
    /\ result.value.data = cursor.pages[2]
    /\ advanced = 2

\* C2: a JSON envelope for page p with count c links current to p, next
\* to p+1 unless p >= totalPages = ceil(c / pageSize), previous to p-1
\* unless p-1 <= 0, first to 1 and last to totalPages; without a page
\* number it has no pagination member.
C2_PaginationLinks ==
    (FetchDone /\ result.status = "returned" /\ req.formatter = "json") =>
        IF req.page_number = <<>>
        THEN "pagination" \notin DOMAIN result.value
        ELSE /\ "pagination" \in DOMAIN result.value
             /\ LET p == req.page_number[1]
                    pageSize == MAX_ITEMS_PER_RESPONSE
                    totalPages ==
                        CHOOSE t \in 0..count :
                            /\ t * pageSize >= count
                            /\ t > 0 => (t - 1) * pageSize < count
                    links == result.value.pagination
                IN  /\ TargetsPage(links.current, p)
                    /\ IF p >= totalPages THEN links.next = None
                       ELSE TargetsPage(links.next, p + 1)
                    /\ IF p - 1 <= 0 THEN links.previous = None
                       ELSE TargetsPage(links.previous, p - 1)
                    /\ TargetsPage(links.first, 1)
                    /\ TargetsPage(links.last, totalPages)
                    /\ (count = 25 /\ pageSize = 10 /\ p = 1) =>
                          /\ totalPages = 3
                          /\ links.previous = None
                          /\ links.next # None
                          /\ links.current = links.first
                    /\ (count = 25 /\ pageSize = 10 /\ p = 3) =>
                          /\ links.next = None
                          /\ links.previous # None

C2_Witness ==
    /\ FetchDone
    /\ req.formatter = "json"
    /\ result.status = "returned"
    /\ req.page_number = <<3>>
    /\ count = 25
    /\ result.value.pagination.next = None
    /\ TargetsPage(result.value.pagination.previous, 2)
    /\ TargetsPage(result.value.pagination.last, 3)

\* C3: when process_get asks for the count and the cache holds an entry
\* for the same count query and date whose keyword items are a permutation
\* of the request's arguments, the count is served from that entry and no
\* count query is sent to the store.
C3_OrderIndependence ==
    [][ (pc = "dispatch" /\ req.method = "GET") =>
          \A i \in 1..Len(cache) :
              ( /\ cache[i].key.query
                     = DBQueries("count", Structure, filters, Ordering)
                /\ cache[i].key.date = req.series_date
                /\ IsPermutation(cache[i].key.kwargs, arguments) )
              => ( /\ queries' = queries
                   /\ pc' = "fetch"
                   /\ count' = cache[i].value ) ]_vars

C3_Witness ==
    /\ pc = "fetch"
    /\ nreq = 2
    /\ \A i \in 1..Len(queries) : queries[i].kind # "count"
    /\ IsPermutation(key.kwargs, arguments)
    /\ key.kwargs # arguments
    /\ arguments[1].name = "@b"

\* C4: get_count fails with NotAvailable when its query returns zero rows or
\* more than one row and returns a count only for exactly one row.
C4_CountExactlyOneRow ==
    (LastQueryIs("count") /\ response.err = None) =>
        IF Len(response.rows) = 1
        THEN pc = "fetch" /\ count = response.rows[1]
        ELSE pc = "done" /\ result.status = "NotAvailable"

\* C5: a call of get_count that fails with NotAvailable leaves the cache as
\* it was, with no entry for its key; a call for a key the cache does not
\* hold sends the count query to the store; only a call that returns a
\* count adds an entry.
C5_FailureNotCached ==
    [][ (pc = "dispatch" /\ req.method = "GET") =>
          /\ (pc' = "done" /\ result'.status = "NotAvailable") =>
                (cache' = cache /\ CachedAt(cache', key') = {})
          /\ CachedAt(cache, key') = {} =>
                (Len(queries') = Len(queries) + 1
                    /\ queries'[Len(queries')].kind = "count")
          /\ cache' # cache => pc' = "fetch" ]_vars

C5_Witness ==
    /\ pc = "done"
    /\ LastQueryIs("count")
    /\ result.status = "NotAvailable"
    /\ nreq = 2
    /\ cache # <<>>
    /\ CachedAt(cache, key) = {}

\* C6: the cache never holds more than maxsize entries; a call for a
\* cached key is served from its entry without a count query and makes
\* that entry the most recently used; a call for a key that is not cached
\* sends the count query, and a count it returns is stored, at a full
\* cache in place of the least recently used entry.
C6_LruEviction ==
    /\ [](Len(cache) <= maxsize)
    /\ [][ nreq' = nreq + 1 =>
             LET hit == CachedAt(cache, key')
             IN  IF hit # {}
                 THEN /\ queries' = <<>>
                      /\ result'.status = "returned"
                      /\ \A i \in hit :
                            /\ result'.value = cache[i].value
                            /\ cache' = SubSeq(cache, 1, i - 1)
                                          \o SubSeq(cache, i + 1, Len(cache))
                                          \o <<cache[i]>>
                 ELSE /\ LastQueryIs("count")'
                      /\ IF result'.status = "returned"
                         THEN cache' =
                                (IF Len(cache) = maxsize
                                 THEN Tail(cache) ELSE cache)
                                    \o <<Entry(key', result'.value)>>
                         ELSE cache' = cache ]_vars

\* the cache is full; the entry of code 2 was evicted for a new key while
\* the entry of code 1, stored before it and looked up since, is kept
C6_Witness ==
    /\ Len(cache) = maxsize
    /\ CachedAt(cache, AreaKey(1)) # {}
    /\ CachedAt(cache, AreaKey(2)) = {}
    /\ CachedAt(cache, AreaKey(maxsize + 1)) # {}
    /\ key = AreaKey(2)
    /\ LastQueryIs("count")

\* C7: after get_data has appended the parameter of the injected equality
\* clause, no two items of the argument sequence have the same name.
C7_NoDuplicateNames ==
    (req.only_latest_by # None /\ Len(arguments) = Len(req.arguments) + 2) =>
        \A i, j \in 1..Len(arguments) :
            i # j => arguments[i].name # arguments[j].name

\* C8: a HEAD request fails with NotAvailable when its existence-check
\* query yields no row and returns without error when it yields a row.
C8_ExistenceCheck ==
    (pc = "done" /\ req.method = "HEAD" /\ LastQueryIs("exists")
        /\ response.err = None) =>
        IF Len(response.rows) = 0
        THEN result.status = "NotAvailable"
        ELSE result.status = "returned"

C8_Witness ==
    /\ pc = "done"
    /\ req.method = "HEAD"
    /\ LastQueryIs("exists")
    /\ response.err = None
    /\ Len(response.rows) = 0
    /\ result.status = "NotAvailable"

\* C9: when the page a GET fetches has no rows, a csv request fails with
\* NotAvailable and a json request returns an envelope of length 0.
C9_EmptyPage ==
    (FetchDone /\ PageHeld /\ cursor.pages[RequestedPage] = <<>>) =>
        IF req.formatter = "csv"
        THEN result.status = "NotAvailable"
        ELSE /\ result.status = "returned"
             /\ result.value.length = 0
             /\ result.value.data = <<>>

C9_Witness ==
    /\ FetchDone
    /\ PageHeld
    /\ cursor.pages[RequestedPage] = <<>>
    /\ req.formatter = "csv"
    /\ result.status = "NotAvailable"
    /\ advanced = RequestedPage

\* C10: when page n >= 1 is requested and the cursor is exhausted after
\* fewer than n pages, process_get fails with NotAvailable.
C10_CursorExhausted ==
    (FetchDone /\ req.page_number # <<>> /\ RequestedPage >= 1
        /\ Len(cursor.pages) < RequestedPage
        /\ cursor.end = "StopIteration") =>
        result = Outcome("NotAvailable", <<>>)

C10_Witness ==
    /\ FetchDone
    /\ req.page_number = <<3>>
    /\ Len(cursor.pages) = 2
    /\ cursor.end = "StopIteration"
    /\ advanced = 3
    /\ result.status = "NotAvailable"

\* C11: whatever query path a request takes, it never ends with a lookup,
\* index or value error of the store in its raw form: such an error is
\* turned into NotAvailable.
C11_UniformFailure ==
    pc = "done" => result.status \notin StoreErrors

QueryKinds == [i \in 1..Len(queries) |-> queries[i].kind]

\* C12 as claimed: a HEAD request sends no store query other than its
\* existence-check query.
C12_HeadOnlyExists ==
    req.method = "HEAD" =>
        \A i \in 1..Len(queries) : queries[i].kind = "exists"

\* C12, amended: a HEAD request sends no count query and no data query,
\* fetches no page and leaves the count cache unchanged; besides the
\* existence-check query it sends only the latest-date lookup, first, when
\* it names an only-latest-by field.
C12_HeadQueries ==
    /\ [](req.method = "HEAD" =>
            /\ QueryKinds \in
                 (IF req.only_latest_by # None
                  THEN { <<>>, <<"latest">>, <<"latest", "exists">> }
                  ELSE { <<>>, <<"exists">> })
            /\ cursor = NoCursor
            /\ advanced = 0
            /\ key = NoKey)
    /\ [][req'.method = "HEAD" => cache' = cache]_vars

C12_Witness ==
    /\ pc = "done"
    /\ req.method = "HEAD"
    /\ QueryKinds = <<"latest", "exists">>
    /\ result.status = "returned"
    /\ cache # <<>>

\* C13: in a request that names an only-latest-by field, a count, data or
\* existence-check query is sent only after the latest-date lookup was sent
\* and returned its value, which the query binds; once the lookup has
\* failed, the request sends no further query.
C13_ResolveBeforeRefilter ==
    [][ req.only_latest_by # None =>
          /\ ( /\ Len(queries') = Len(queries) + 1
               /\ queries'[Len(queries')].kind \in {"count", "data", "exists"} )
             => ( /\ queries # <<>>
                  /\ queries[1].kind = "latest"
                  /\ result.status = "pending"
                  /\ arguments[Len(arguments)].name = GeneratedName
                  /\ arguments[Len(arguments)].value \in LatestDates
                  /\ \E i \in 1..Len(queries'[Len(queries')].parameters) :
                        queries'[Len(queries')].parameters[i]
                            = arguments[Len(arguments)] )
          /\ (LastQueryIs("latest") /\ result.status # "pending")
             => (queries' = queries \/ queries' = <<>>) ]_vars

C13_Witness ==
    /\ req.only_latest_by # None
    /\ pc = "done"
    /\ QueryKinds = <<"latest", "count", "data">>
    /\ result.status = "returned"

\* C16: two requests whose rendered data-query texts are the same seed
\* their page cursors with the same token, whatever their parameters,
\* series date, page number and format.
C16_SeedDeterminism ==
    \A i, j \in 1..Len(seeded) :
        (/\ seeded[i].status = "seeded"
         /\ seeded[j].status = "seeded"
         /\ seeded[i].query = seeded[j].query)
            => seeded[i].continuation_token = seeded[j].continuation_token

C16_Witness ==
    /\ Len(seeded) = 2
    /\ seeded[1].status = "seeded" /\ seeded[2].status = "seeded"
    /\ seeded[1].query = seeded[2].query
    /\ seeded[1].parameters # seeded[2].parameters
    /\ seeded[1].request.only_latest_by # None
    /\ seeded[1].request.series_date # seeded[2].request.series_date
    /\ seeded[1].request.page_number # seeded[2].request.page_number
    /\ seeded[1].request.formatter # seeded[2].request.formatter
    /\ seeded[1].continuation_token = seeded[2].continuation_token
    /\ [k \in 1..Len(queries) |-> <<queries[k].run, queries[k].kind>>]
          = << <<1, "latest">>, <<2, "latest">>, <<2, "count">>,
               <<2, "data">>, <<1, "count">>, <<1, "data">> >>

\* C14: while one request waits on its count query, a request for another
\* key that is ready to resume can look up the cache and issue its own
\* store calls.
C14_DifferentKeysProgress ==
    \A p, q \in Tasks :
        (/\ tasks[p].pc = "count"
         /\ tasks[q].pc = "suspended"
         /\ tasks[q].key # tasks[p].key)
            => ENABLED CountCall(q)

CountIssued(p) == tasks[p].queries # <<>> /\ tasks[p].queries[1] = "count"

CountFailed(p) == tasks[p].pc = "done" /\ tasks[p].queries = <<"count">>

\* C15 as claimed: of two requests for the same key, at most one issues the
\* count query; the other is served from the entry the first one stored.
C15_SecondServedFromFirst ==
    \A p, q \in Tasks :
        (p # q /\ tasks[p].key = tasks[q].key)
            => ~(CountIssued(p) /\ CountIssued(q))

\* C15, amended: the count query is never in flight twice for one key, and
\* of the requests for one key that issued it at most one has not failed.
C15_OneCountInFlight ==
    \A p, q \in Tasks :
        (p # q /\ tasks[p].key = tasks[q].key)
            => /\ ~(tasks[p].pc = "count" /\ tasks[q].pc = "count")
               /\ ~(/\ CountIssued(p) /\ ~CountFailed(p)
                    /\ CountIssued(q) /\ ~CountFailed(q))

C15_Witness ==
    /\ tasks[1].key = tasks[2].key
    /\ tasks[1].pc = "done" /\ tasks[1].queries = <<"count", "data">>
    /\ tasks[2].pc = "done" /\ tasks[2].queries = <<"data">>
    /\ tasks[1].status = "returned" /\ tasks[2].status = "returned"
    /\ Len(cache) = 1

\* C17: the call counter in the audit records of one data query increases
\* from one hook invocation to the next, so no two of its records carry the
\* same counter value.
C17_CounterIncreases ==
    FetchDone =>
        \A i, j \in 1..Len(LogResponse) :
            i < j => LogResponse[i].request_round
                        < LogResponse[j].request_round

\* C18: in every JSON envelope returned for a GET request, with or without
\* an only-latest-by field, 'length' is at most 'maxPageLimit'.
C18_LengthWithinLimit ==
    (FetchDone /\ result.status = "returned" /\ req.formatter = "json")
        => result.value.length <= result.value.maxPageLimit

\* C19: in every JSON envelope with pagination links, every link that is
\* not None targets a page in 1..totalPages, also when the count is 0.
C19_LinksInRange ==
    (/\ FetchDone /\ result.status = "returned" /\ req.formatter = "json"
     /\ req.page_number # <<>>)
        => LET totalPages == Ceil(count, MAX_ITEMS_PER_RESPONSE)
               links == result.value.pagination
           IN  \A f \in {"current", "next", "previous", "first", "last"} :
                   links[f] # None
                       => \E k \in 1..totalPages : TargetsPage(links[f], k)

\* C20: whatever integer page number the request carries, 0 and negative
\* ones included, process_get returns a response or fails with
\* NotAvailable when the store raises nothing but the end of the cursor.
C20_PageSeekFailsNotAvailable ==
    (FetchDone /\ cursor.end \notin StoreErrors)
        => result.status \in {"returned", "NotAvailable"}

====
